---- MODULE Spec2Model ----
(***************************************************************************)
(* windex: incremental file indexer over an SQLite catalog.                *)
(* Model of src/windex.c: the exclusion list, the catalog (table files),   *)
(* the reconciler _index_entry, the pruning pass, the iterative walk       *)
(* _index_files_dynamic with its frontier stack and transaction, the       *)
(* search query, and main's exit status.                                   *)
(*                                                                         *)
(* Strings are sequences of one-character strings, so that strstr, LIKE,   *)
(* strrchr and tolower are computed character by character.                *)
(***************************************************************************)
EXTENDS Naturals, Integers, Sequences, FiniteSets, TLC

(***************************************************************************)
(* Bounds of the model                                                     *)
(***************************************************************************)
MaxMtime == 1        \* st_mtime ranges over 0..MaxMtime
MaxSize == 1         \* st_size ranges over 0..MaxSize
MaxRuns == 3         \* index processes started in one behaviour
MaxFsOps == 2        \* filesystem changes in one behaviour
MaxFaults == 1       \* injected statement / allocation failures in one run
MaxPermDir == 3      \* directories up to this size are listed in any order
WideExtra == 1       \* the wide directory has STACK_INIT + WideExtra subdirectories
CapSpread == 5       \* the large catalogs hold SEARCH_LIMIT - CapSpread .. SEARCH_LIMIT + CapSpread rows
CapSeeds == 3        \* mtime assignments tried for the searched catalogs
CapSmall == 3        \* the small searched catalogs hold 1..CapSmall rows

(***************************************************************************)
(* Program constants                                                       *)
(***************************************************************************)
MAX_PATH == 4096
STACK_INIT == 1000
SEARCH_LIMIT == 100

(***************************************************************************)
(* Strings                                                                 *)
(***************************************************************************)
Min(a, b) == IF a < b THEN a ELSE b

UpperChars == <<"A","B","C","D","E","F","G","H","I","J","K","L","M",
                "N","O","P","Q","R","S","T","U","V","W","X","Y","Z">>
LowerChars == <<"a","b","c","d","e","f","g","h","i","j","k","l","m",
                "n","o","p","q","r","s","t","u","v","w","x","y","z">>

\* tolower on one character
ToLowerChar(c) ==
    IF \E i \in 1..26 : UpperChars[i] = c
    THEN LowerChars[CHOOSE i \in 1..26 : UpperChars[i] = c]
    ELSE c

\* _to_lower: a lowercased copy of the string
ToLower(s) == [i \in 1..Len(s) |-> ToLowerChar(s[i])]

\* strstr(s, sub) != NULL
StrStr(s, sub) ==
    \E i \in 0..(Len(s) - Len(sub)) : SubSeq(s, i + 1, i + Len(sub)) = sub

\* snprintf(buf, n, ...) keeps at most n - 1 characters
Truncate(s, n) == SubSeq(s, 1, Min(Len(s), n - 1))

\* position of the last '/' of a path, 0 when there is none (strrchr)
LastSlash(p) ==
    IF \E i \in 1..Len(p) : p[i] = "/"
    THEN CHOOSE i \in 1..Len(p) : p[i] = "/" /\ \A j \in (i + 1)..Len(p) : p[j] # "/"
    ELSE 0

\* name stored for a path: the text after the last '/', or the whole path
NameOf(p) == SubSeq(p, LastSlash(p) + 1, Len(p))

\* the directory part of a path (what opendir was given when p was built)
ParentOf(p) == SubSeq(p, 1, LastSlash(p) - 1)

\* snprintf(path, MAX_PATH, "%s/%s", current, d_name)
ChildPath(current, dname) == Truncate(current \o <<"/">> \o dname, MAX_PATH)

\* SQLite LIKE: '%' matches any run, '_' any one character, ASCII letters
\* compare case-insensitively
RECURSIVE LikeMatch(_, _)
LikeMatch(pat, s) ==
    IF pat = <<>> THEN s = <<>>
    ELSE IF Head(pat) = "%"
         THEN \/ LikeMatch(Tail(pat), s)
              \/ (s # <<>> /\ LikeMatch(pat, Tail(s)))
    ELSE IF s = <<>> THEN FALSE
    ELSE IF Head(pat) = "_" THEN LikeMatch(Tail(pat), Tail(s))
    ELSE ToLowerChar(Head(pat)) = ToLowerChar(Head(s)) /\ LikeMatch(Tail(pat), Tail(s))

(***************************************************************************)
(* Exclusion list                                                          *)
(***************************************************************************)
default_excluded_dirs ==
    << <<"S","y","s","t","e","m"," ","V","o","l","u","m","e"," ",
         "I","n","f","o","r","m","a","t","i","o","n">>,
       <<"$","R","E","C","Y","C","L","E",".","B","I","N">>,
       <<"W","i","n","d","o","w","s">>,
       <<"P","r","o","g","r","a","m"," ","F","i","l","e","s">>,
       <<"P","r","o","g","r","a","m"," ","F","i","l","e","s"," ","(","x","8","6",")">> >>

\* _init_excluded_dirs followed by one _add_exclude_dir per --exclude option
ExcludedDirs(extras) == default_excluded_dirs \o extras

\* an exclusion test that never excludes
IsExcludedNever(excl, path) == FALSE

\* an exclusion test that matches whole path components only
IsExcludedWhole(excl, path) ==
    \E i \in 1..Len(excl) : StrStr(path \o <<"/">>, <<"/">> \o excl[i] \o <<"/">>)

\* _is_excluded
IsExcluded(excl, path) == \E i \in 1..Len(excl) : StrStr(path, excl[i])

(***************************************************************************)
(* Catalog: table files, one row per full_path (UNIQUE).  A catalog is a   *)
(* function from the stored paths to [name, type, size, mtime].            *)
(***************************************************************************)
EmptyCatalog == [p \in {} |-> 0]

\* _get_db_mtime: the stored mtime, 0 when the path has no row
GetDbMtime(cat, path) == IF path \in DOMAIN cat THEN cat[path].mtime ELSE 0

\* the row _index_entry binds for (path, st)
RowOf(path, st) ==
    [name  |-> NameOf(path),
     type  |-> IF st.kind = "dir" THEN "dir" ELSE "file",
     size  |-> st.size,
     mtime |-> st.mtime]

\* _index_entry with its skip test removed: writes even when the mtimes agree
IndexEntryNoSkip(cat, path, st, stepOk) ==
    IF ~stepOk THEN [cat |-> cat, n |-> 0]
    ELSE IF path \in DOMAIN cat
         THEN [cat |-> [cat EXCEPT ![path] = RowOf(path, st)], n |-> 1]
         ELSE [cat |-> cat @@ (path :> RowOf(path, st)), n |-> 1]

\* _index_entry that updates only the mtime column
IndexEntryMtimeOnly(cat, path, st, stepOk) ==
    LET db_mtime == GetDbMtime(cat, path) IN
    IF db_mtime = st.mtime \/ ~stepOk THEN [cat |-> cat, n |-> 0]
    ELSE IF path \in DOMAIN cat
         THEN [cat |-> [cat EXCEPT ![path].mtime = st.mtime], n |-> 1]
         ELSE [cat |-> cat @@ (path :> RowOf(path, st)), n |-> 1]

\* _index_entry: the catalog after reconciling (path, st), and the number of
\* rows the statement changed.  stepOk is FALSE when prepare or step fails.
IndexEntry(cat, path, st, stepOk) ==
    LET db_mtime == GetDbMtime(cat, path) IN
    IF db_mtime = st.mtime THEN [cat |-> cat, n |-> 0]
    ELSE IF ~stepOk THEN [cat |-> cat, n |-> 0]
    ELSE IF db_mtime = 0
         THEN \* INSERT OR IGNORE: a row already holding the path is kept
              IF path \in DOMAIN cat
              THEN [cat |-> cat, n |-> 0]
              ELSE [cat |-> cat @@ (path :> RowOf(path, st)), n |-> 1]
         ELSE \* UPDATE ... WHERE full_path = ?
              [cat |-> [cat EXCEPT ![path] = RowOf(path, st)], n |-> 1]

(***************************************************************************)
(* Table files at the level of its statements: a list of rows              *)
(* [full_path, name, type, size, mtime] in insertion order.  full_path is  *)
(* declared UNIQUE, which is what INSERT OR IGNORE relies on.              *)
(***************************************************************************)
\* SELECT mtime FROM files WHERE full_path = ?: the first row's mtime, else 0
SelectMtime(t, path) ==
    IF \E i \in 1..Len(t) : t[i].full_path = path
    THEN t[CHOOSE i \in 1..Len(t) :
                /\ t[i].full_path = path
                /\ \A j \in 1..(i - 1) : t[j].full_path # path].mtime
    ELSE 0

\* an INSERT into a table whose full_path is not UNIQUE
InsertAlways(t, row) == Append(t, row)

\* INSERT OR IGNORE: the UNIQUE constraint on full_path drops the new row
\* when a row with the same full_path exists
InsertOrIgnore(t, row) ==
    IF \E i \in 1..Len(t) : t[i].full_path = row.full_path THEN t ELSE Append(t, row)

\* UPDATE files SET name = ?, type = ?, size = ?, mtime = ? WHERE full_path = ?
UpdateWhere(t, path, row) ==
    [i \in 1..Len(t) |->
        IF t[i].full_path = path
        THEN [t[i] EXCEPT !.name = row.name, !.type = row.type,
                          !.size = row.size, !.mtime = row.mtime]
        ELSE t[i]]

\* DELETE FROM files WHERE full_path = ?
DeleteWhere(t, path) == SelectSeq(t, LAMBDA r : r.full_path # path)

\* _index_entry on the table
IndexEntryRows(t, path, st) ==
    LET db_mtime == SelectMtime(t, path)
        row == [full_path |-> path] @@ RowOf(path, st)
    IN  IF db_mtime = st.mtime THEN t
        ELSE IF db_mtime = 0 THEN InsertOrIgnore(t, row)
        ELSE UpdateWhere(t, path, row)

\* the catalog a table with one row per path stands for
CatalogOf(t) ==
    [p \in {t[i].full_path : i \in 1..Len(t)} |->
        LET r == t[CHOOSE i \in 1..Len(t) : t[i].full_path = p]
        IN  [name |-> r.name, type |-> r.type, size |-> r.size, mtime |-> r.mtime]]

(***************************************************************************)
(* Filesystem: a function from the existing paths to                       *)
(* [kind, mtime, size, rd, st]; rd: opendir succeeds, st: stat succeeds.   *)
(***************************************************************************)
\* stat(path, &st) == 0
StatOk(fsys, path) == path \in DOMAIN fsys /\ fsys[path].st

\* opendir(path) != NULL
OpenDirOk(fsys, path) ==
    path \in DOMAIN fsys /\ fsys[path].kind = "dir" /\ fsys[path].rd

\* the d_name values readdir yields for a directory, "." and ".." left out
DirNames(fsys, dir) ==
    {NameOf(p) : p \in {q \in DOMAIN fsys : LastSlash(q) > 0 /\ ParentOf(q) = dir}}

\* a pruning SELECT whose pattern lacks the trailing '%'
PruneCandidatesNoWildcard(cat, root) ==
    {p \in DOMAIN cat : LikeMatch(Truncate(root, MAX_PATH), p)}

\* the candidates of the pruning SELECT: full_path LIKE root || '%'
PruneCandidates(cat, root) ==
    {p \in DOMAIN cat : LikeMatch(Truncate(root \o <<"%">>, MAX_PATH), p)}

\* a pruning pass that deletes nothing
PruneStaleNone(cat, root, fsys, delFail) == cat

\* a pruning pass that deletes a row only when its path does not exist
PruneStaleAbsentOnly(cat, root, fsys, delFail) ==
    LET gone == {p \in PruneCandidates(cat, root) : p \notin DOMAIN fsys} \ delFail
    IN  [p \in (DOMAIN cat) \ gone |-> cat[p]]

\* _prune_stale_entries: every candidate whose stat fails is deleted, unless
\* its DELETE statement fails (delFail)
PruneStale(cat, root, fsys, delFail) ==
    LET gone == {p \in PruneCandidates(cat, root) : ~StatOk(fsys, p)} \ delFail
    IN  [p \in (DOMAIN cat) \ gone |-> cat[p]]

(***************************************************************************)
(* Transactions: db is the committed catalog, txn the connection's view    *)
(***************************************************************************)
\* ROLLBACK that keeps the uncommitted writes
RollbackKeeps(committed, working) == working

\* the committed catalog after ROLLBACK, or after the process dies with the
\* transaction open
RollbackTxn(committed, working) == committed

\* the committed catalog after COMMIT
CommitTxn(committed, working) == working

(***************************************************************************)
(* Search                                                                  *)
(***************************************************************************)
\* WHERE lower(name) LIKE '%<p>%' OR lower(full_path) LIKE '%<p>%', the
\* lowercased pattern pasted into the statement text
SearchMatches(cat, lower_pattern) ==
    LET like == <<"%">> \o lower_pattern \o <<"%">>
    IN  {p \in DOMAIN cat : \/ LikeMatch(like, ToLower(cat[p].name))
                            \/ LikeMatch(like, ToLower(p))}

\* the row a SELECT full_path, type, size, mtime yields
Selected(cat, p) ==
    [path |-> p, type |-> cat[p].type, size |-> cat[p].size, mtime |-> cat[p].mtime]

\* every listing of a set of rows that share one mtime
SameMtimeOrders(cat, S) ==
    {[i \in 1..Cardinality(S) |-> Selected(cat, s[i])]
        : s \in {t \in [1..Cardinality(S) -> S] :
                    \A i, j \in 1..Cardinality(S) : i # j => t[i] # t[j]}}

\* ORDER BY mtime DESC: every listing of the rows by descending mtime (rows
\* of equal mtime come in an order the store chooses).  The rows above the
\* middle of the mtime range come first, then the others.
RECURSIVE OrderByMtimeDesc(_, _)
OrderByMtimeDesc(cat, S) ==
    IF S = {} THEN {<<>>}
    ELSE LET lo == cat[CHOOSE p \in S : \A q \in S : cat[p].mtime <= cat[q].mtime].mtime
             hi == cat[CHOOSE p \in S : \A q \in S : cat[q].mtime <= cat[p].mtime].mtime
             mid == (lo + hi) \div 2
         IN  IF lo = hi THEN SameMtimeOrders(cat, S)
             ELSE {a \o b : a \in OrderByMtimeDesc(cat, {p \in S : cat[p].mtime > mid}),
                            b \in OrderByMtimeDesc(cat, {p \in S : cat[p].mtime <= mid})}

\* LIMIT n
LimitRows(rows, n) == SubSeq(rows, 1, Min(Len(rows), n))

Reverse(rows) == [i \in 1..Len(rows) |-> rows[Len(rows) + 1 - i]]

\* the query with ORDER BY mtime ASC
SearchRowsAsc(cat, pattern) ==
    {LimitRows(Reverse(rows), SEARCH_LIMIT)
        : rows \in OrderByMtimeDesc(cat, SearchMatches(cat, ToLower(pattern)))}

\* _search_files: the possible result listings for a pattern
SearchRows(cat, pattern) ==
    {LimitRows(rows, SEARCH_LIMIT)
        : rows \in OrderByMtimeDesc(cat, SearchMatches(cat, ToLower(pattern)))}

(***************************************************************************)
(* The trees the model runs on                                             *)
(***************************************************************************)
RootR == <<"/","r">>
PathA == <<"/","r","/","a">>
PathAB == <<"/","r","/","a","/","b">>
PathW == <<"/","r","/","W","i","n","d","o","w","s">>
WideRoot == <<"/","w">>

\* the entries whose state the environment changes between runs
\* a second root whose name differs from /r in case only, and a file in it
RootUp == <<"/","R">>
PathUpA == <<"/","R","/","a">>

Mutable == {PathA, PathAB, PathUpA}

Mtimes == 0..MaxMtime
Sizes == 0..MaxSize

DirEntry(m) == [kind |-> "dir", mtime |-> m, size |-> 0, rd |-> TRUE, st |-> TRUE]
FileEntry(m, sz) == [kind |-> "file", mtime |-> m, size |-> sz, rd |-> FALSE, st |-> TRUE]

\* /r with a directory a holding a file b, and a directory Windows
SmallTree ==
    (RootR :> DirEntry(1)) @@ (PathA :> DirEntry(1)) @@
    (PathAB :> FileEntry(1, 0)) @@ (PathW :> DirEntry(1))

\* two trees side by side on a case-sensitive filesystem
RootsTree ==
    (RootR :> DirEntry(1)) @@ (PathA :> FileEntry(1, 0)) @@
    (RootUp :> DirEntry(1)) @@ (PathUpA :> FileEntry(1, 0))

\* the number of runs over the two roots
RootsRuns == 2

Digits == <<"0","1","2","3","4","5","6","7","8","9">>
WideName(i) ==
    <<"d", Digits[((i \div 1000) % 10) + 1], Digits[((i \div 100) % 10) + 1],
      Digits[((i \div 10) % 10) + 1], Digits[(i % 10) + 1]>>
WideCount == STACK_INIT + WideExtra

\* /w with WideCount empty subdirectories: more than the frontier's first
\* allocation holds
WideTree ==
    LET sub == {ChildPath(WideRoot, WideName(i)) : i \in 1..WideCount}
    IN  [p \in sub \cup {WideRoot} |-> DirEntry(1)]

\* the --exclude options a run may be given
ExtraChoices == {<<>>, << <<"b">> >>}

\* the patterns a search may be given
PatternChoices == {<<>>, <<"1">>, <<"W","_","d">>, <<"D">>}

\* a file whose name holds the default "Windows" and the letter b inside it
PathPart == <<"/","r","/","x","W","i","n","d","o","w","s","b",".","t","x","t">>

\* the values --exclude is given, and how many times it is given
AddChoices == {<<>>, <<"b">>, <<"a","/">>, <<"/","r","/","a">>}
MaxExclude == 3

\* the paths _is_excluded is asked about
ProbePaths == {RootR, PathA, PathAB, PathW, PathPart}

\* the number of runs followed to their end
TermRuns == 2

AllFaults == {"malloc", "strdup_root", "stmt", "strdup", "realloc", "delete"}
NoRun == <<>>

\* the order in which the wide directory is listed
WideListing == [i \in 1..WideCount |-> WideName(i)]

\* the orders in which readdir may list a directory: any order for a small
\* directory, the listing order for the wide one
DirOrders(names) ==
    IF Cardinality(names) <= MaxPermDir
    THEN {s \in [1..Cardinality(names) -> names] :
            \A i, j \in 1..Cardinality(names) : i # j => s[i] # s[j]}
    ELSE {SelectSeq(WideListing, LAMBDA n : n \in names)}

\* a per-path counter, raised by one
Bump(f, p) == IF p \in DOMAIN f THEN [f EXCEPT ![p] = @ + 1] ELSE f @@ (p :> 1)
Count(f, p) == IF p \in DOMAIN f THEN f[p] ELSE 0
NoCounts == [p \in {} |-> 0]

(***************************************************************************)
(* State                                                                   *)
(***************************************************************************)
VARIABLES
    fs,        \* the filesystem
    db,        \* the committed catalog
    txn,       \* the catalog as the open connection sees it
    inTxn,     \* BEGIN executed, neither COMMIT nor ROLLBACK yet
    pc,        \* idle | loop | readdir | commit | exited | dead | searched
    root,      \* the root of the running index command
    extras,    \* its --exclude options
    excl,      \* excluded_dirs
    stack,     \* the frontier: stack[1..top]
    capacity,  \* the frontier's allocated slots
    cur,       \* the directory being read
    entries,   \* the names readdir has still to return
    exitCode,  \* the process's exit status
    pattern,   \* the search pattern
    results,   \* the rows the search printed
    scenario,  \* what the environment may do: roots, injectable failures
    runs, fsOps,   \* the runs started and the tree changes made, against the bounds
    faults,    \* the statement and allocation failures injected in the run
    \* the record of the current run
    pre,       \* the committed catalog when the run started
    wrote,     \* some statement of the run changed a row
    perEntry,  \* the per-entry failures met: opendir, stat, stmt
    allocFail, \* the frontier allocation that failed: none | malloc | strdup_root | realloc
    outcome,   \* none | committed | rolledback | killed
    pruned,    \* the pruning pass ran
    visits, pushes, pops,  \* per path: handed to _index_entry, pushed, popped
    repeat,    \* the run repeats the previous one: same root and options, tree untouched
    last,      \* root and options of the previous run when it committed without failure
    midRun,    \* the tree changed while the current run was in progress
    prevLive,  \* the tree changed while the previous run was in progress
    heap,      \* the frontier's allocations: block -> number of times freed
    table,     \* table files as a list of rows, for the statement-level view
    probe,     \* the path last given to _is_excluded
    verdict    \* what _is_excluded returned for it

vars == <<fs, db, txn, inTxn, pc, root, extras, excl, stack, capacity, cur, entries,
          exitCode, pattern, results, scenario, runs, fsOps, faults, pre, wrote,
          perEntry, allocFail, outcome, pruned, visits, pushes, pops,
          repeat, last, midRun, prevLive, heap, table, probe, verdict>>

procVars == <<root, extras, excl, stack, capacity, cur, entries>>
runVars == <<pre, wrote, faults, perEntry, allocFail, outcome, pruned, visits,
             pushes, pops, repeat>>
searchVars == <<pattern, results>>
boundVars == <<runs, fsOps>>
liveVars == <<midRun, prevLive>>
auxVars == <<table, probe, verdict>>

\* the frontier's array, as a block of the heap; a path string is a block
\* named by the path
StackBlock == <<"stack">>
NoBlocks == [b \in {} |-> 0]

\* malloc / strdup returned the block
AllocBlock(h, b) == (b :> 0) @@ h

\* free(b)
FreeBlock(h, b) == IF b \in DOMAIN h THEN [h EXCEPT ![b] = @ + 1] ELSE (b :> 1) @@ h

\* free of every block of a list: each block is freed once per occurrence
FreeAll(h, bs) ==
    [b \in (DOMAIN h) \cup {bs[i] : i \in 1..Len(bs)} |->
        (IF b \in DOMAIN h THEN h[b] ELSE 0) + Cardinality({i \in 1..Len(bs) : bs[i] = b})]

IdleState ==
    /\ txn = db /\ inTxn = FALSE /\ pc = "idle"
    /\ root = <<>> /\ extras = <<>> /\ excl = <<>> /\ stack = <<>>
    /\ capacity = 0 /\ cur = <<>> /\ entries = <<>>
    /\ exitCode = "none" /\ pattern = <<>> /\ results = <<>>
    /\ pre = db /\ wrote = FALSE /\ faults = 0 /\ perEntry = {}
    /\ allocFail = "none" /\ outcome = "none" /\ pruned = FALSE
    /\ visits = NoCounts /\ pushes = NoCounts /\ pops = NoCounts
    /\ repeat = FALSE /\ last = NoRun
    /\ midRun = FALSE /\ prevLive = FALSE /\ heap = NoBlocks
    /\ table = <<>> /\ probe = <<>> /\ verdict = FALSE

\* an empty catalog (the table _init_db creates) beside the small tree
Init ==
    /\ fs = SmallTree
    /\ db = EmptyCatalog
    /\ scenario = [roots |-> {RootR, PathA}, inject |-> AllFaults]
    /\ runs = 0 /\ fsOps = 0
    /\ IdleState

\* an empty catalog beside the wide tree; the failures injected are those of
\* the frontier's allocations
WideInit ==
    /\ fs = WideTree
    /\ db = EmptyCatalog
    /\ scenario = [roots |-> {WideRoot}, inject |-> {"malloc", "strdup_root", "realloc"}]
    /\ runs = MaxRuns - 1 /\ fsOps = MaxFsOps
    /\ IdleState

\* an empty catalog beside the small tree, which changes only while a run is
\* in progress; runs go over /r and no failure is injected
LiveInit ==
    /\ fs = SmallTree
    /\ db = EmptyCatalog
    /\ scenario = [roots |-> {RootR}, inject |-> {}]
    /\ runs = 0 /\ fsOps = 0
    /\ IdleState

\* an empty catalog beside the small tree; the frontier's allocations succeed
\* and no process is terminated from outside
TermInit ==
    /\ fs = SmallTree
    /\ db = EmptyCatalog
    /\ scenario = [roots |-> {RootR, PathA}, inject |-> {"stmt", "strdup", "delete"}]
    /\ runs = MaxRuns - TermRuns /\ fsOps = 0
    /\ IdleState

\* main before _init_excluded_dirs: excluded_dirs is NULL
ExclInit ==
    /\ fs = SmallTree
    /\ db = EmptyCatalog
    /\ scenario = [roots |-> {RootR}, inject |-> {}]
    /\ runs = MaxRuns /\ fsOps = MaxFsOps
    /\ IdleState

\* an empty catalog beside the two trees; runs go over /r or /R, no failure is
\* injected and no process is terminated
RootsInit ==
    /\ fs = RootsTree
    /\ db = EmptyCatalog
    /\ scenario = [roots |-> {RootR, RootUp}, inject |-> {}]
    /\ runs = MaxRuns - RootsRuns /\ fsOps = 0
    /\ IdleState

\* an empty catalog beside the wide tree, where the frontier outgrows its
\* first allocation, or beside the small tree, where the copy of a pushed path
\* may fail
BoundsInit ==
    /\ db = EmptyCatalog
    /\ \/ /\ fs = WideTree
          /\ scenario = [roots |-> {WideRoot}, inject |-> {"malloc", "strdup_root", "realloc"}]
       \/ /\ fs = SmallTree
          /\ scenario = [roots |-> {RootR}, inject |-> {"strdup"}]
    /\ runs = MaxRuns - 1 /\ fsOps = MaxFsOps
    /\ IdleState

\* the empty table _init_db creates; no command runs
RowsInit ==
    /\ fs = SmallTree
    /\ db = EmptyCatalog
    /\ scenario = [roots |-> {RootR}, inject |-> {}]
    /\ runs = MaxRuns /\ fsOps = MaxFsOps
    /\ IdleState

MayFail(kind, used) == kind \in scenario.inject /\ faults + used < MaxFaults

\* /w holding n files; the mtimes are pairwise different and assigned in one of
\* three ways (rising, falling, alternating), except that a small tree has one
\* assignment where all files share an mtime
CapMtime(i, n, seed) ==
    IF n <= CapSmall /\ seed % 3 = 0 THEN 1
    ELSE IF seed % 3 = 1 THEN i
    ELSE IF seed % 3 = 2 THEN n + 1 - i
    ELSE IF i % 2 = 0 THEN i \div 2 ELSE n - (i \div 2)

\* the catalog sizes searched: a few rows, and about SEARCH_LIMIT rows
CapSizes == (1..CapSmall) \cup ((SEARCH_LIMIT - CapSpread)..(SEARCH_LIMIT + CapSpread))

CapTree(n, seed) ==
    [p \in {ChildPath(WideRoot, WideName(i)) : i \in 1..n} \cup {WideRoot} |->
        IF p = WideRoot THEN DirEntry(1)
        ELSE LET i == CHOOSE k \in 1..n : ChildPath(WideRoot, WideName(k)) = p
             IN  FileEntry(CapMtime(i, n, seed), 1)]

\* the catalog an index run over that tree leaves: _index_entry on each file
CapCatalog(fsys, n) ==
    [p \in {ChildPath(WideRoot, WideName(i)) : i \in 1..n} |->
        IndexEntry(EmptyCatalog, p, fsys[p], TRUE).cat[p]]

\* a catalog as indexing /w leaves it, with a few rows or about SEARCH_LIMIT rows
CapInit ==
    /\ \E n \in CapSizes, seed \in 1..CapSeeds :
        /\ fs = CapTree(n, seed)
        /\ db = CapCatalog(CapTree(n, seed), n)
    /\ scenario = [roots |-> {WideRoot}, inject |-> {}]
    /\ runs = MaxRuns /\ fsOps = MaxFsOps
    /\ IdleState

(***************************************************************************)
(* The environment: the tree changes while no windex process runs          *)
(***************************************************************************)
\* q lies below the directory p
IsBelow(p, q) == Len(q) > Len(p) /\ SubSeq(q, 1, Len(p) + 1) = p \o <<"/">>

FsStep(newFs) ==
    /\ pc = "idle"
    /\ fsOps < MaxFsOps
    /\ fs' = newFs
    /\ fsOps' = fsOps + 1
    /\ last' = NoRun
    /\ UNCHANGED <<db, txn, inTxn, pc, exitCode, scenario, runs>>
    /\ UNCHANGED <<procVars, runVars, searchVars, liveVars, heap, auxVars>>

\* a write to an entry: its mtime moves (and a file's size may change)
FsTouch ==
    \E p \in Mutable \cap DOMAIN fs, t \in Mtimes, sz \in Sizes :
        /\ t # fs[p].mtime
        /\ fs[p].kind = "dir" => sz = fs[p].size
        /\ FsStep([fs EXCEPT ![p].mtime = t, ![p].size = sz])

\* an entry is deleted, with everything below it
FsRemove ==
    \E p \in Mutable \cap DOMAIN fs :
        FsStep([q \in {x \in DOMAIN fs : x # p /\ ~IsBelow(p, x)} |-> fs[q]])

\* an entry is created in an existing directory
FsCreate ==
    \E p \in Mutable \ DOMAIN fs, k \in {"file", "dir"}, t \in Mtimes :
        /\ OpenDirOk(fs, ParentOf(p)) \/ (ParentOf(p) \in DOMAIN fs /\ fs[ParentOf(p)].kind = "dir")
        /\ FsStep(fs @@ (p :> IF k = "dir" THEN DirEntry(t) ELSE FileEntry(t, 0)))

\* permissions change: a directory becomes unreadable, a path unsearchable
FsChmod ==
    \E p \in Mutable \cap DOMAIN fs, r \in BOOLEAN, s \in BOOLEAN :
        /\ <<r, s>> # <<fs[p].rd, fs[p].st>>
        /\ r => (s /\ fs[p].kind = "dir")
        /\ FsStep([fs EXCEPT ![p].rd = r, ![p].st = s])

\* the tree changes while an index run is in progress: an entry is written,
\* deleted with everything below it, or created in an existing directory
FsLive ==
    \E p \in Mutable, t \in Mtimes, k \in {"touch", "remove", "file", "dir"} :
        /\ pc \in {"loop", "readdir", "commit"}
        /\ fsOps < MaxFsOps
        /\ k = "touch" => (p \in DOMAIN fs /\ t # fs[p].mtime)
        /\ k = "remove" => (p \in DOMAIN fs /\ t = 0)
        /\ k \in {"file", "dir"} =>
                (p \notin DOMAIN fs /\ ParentOf(p) \in DOMAIN fs /\ fs[ParentOf(p)].kind = "dir")
        /\ fs' = IF k = "touch" THEN [fs EXCEPT ![p].mtime = t]
                  ELSE IF k = "remove"
                       THEN [q \in {x \in DOMAIN fs : x # p /\ ~IsBelow(p, x)} |-> fs[q]]
                  ELSE fs @@ (p :> IF k = "dir" THEN DirEntry(t) ELSE FileEntry(t, 0))
        /\ fsOps' = fsOps + 1
        /\ midRun' = TRUE
        /\ UNCHANGED <<db, txn, inTxn, pc, exitCode, scenario, runs, last, prevLive, heap>>
        /\ UNCHANGED <<procVars, runVars, searchVars, auxVars>>

(***************************************************************************)
(* windex index: main and _index_files_dynamic                             *)
(***************************************************************************)
\* the status main returns once _index_files_dynamic is back: sqlite3_close,
\* _free_excluded_dirs, return 0
MainExitCode == "0"

\* a start that forgets free(stack) when the strdup of the root fails
StartIndexLeak ==
    \E r \in scenario.roots, e \in ExtraChoices,
       alloc \in {"ok", "malloc", "strdup_root"} :
        /\ pc = "idle"
        /\ runs < MaxRuns
        /\ alloc # "ok" => MayFail(alloc, 0)
        /\ runs' = runs + 1
        /\ faults' = IF alloc = "ok" THEN 0 ELSE 1
        /\ root' = r /\ extras' = e /\ excl' = ExcludedDirs(e)
        /\ pre' = db /\ wrote' = FALSE /\ perEntry' = {} /\ pruned' = FALSE
        /\ visits' = NoCounts /\ pushes' = NoCounts /\ pops' = NoCounts
        /\ outcome' = "none"
        /\ repeat' = (last = <<r, e>>)
        /\ allocFail' = IF alloc = "ok" THEN "none" ELSE alloc
        /\ capacity' = IF alloc = "malloc" THEN 0 ELSE STACK_INIT
        /\ stack' = IF alloc = "ok" THEN <<r>> ELSE <<>>
        /\ inTxn' = (alloc = "ok")
        /\ pc' = IF alloc = "ok" THEN "loop" ELSE "exited"
        /\ exitCode' = IF alloc = "ok" THEN "none" ELSE MainExitCode
        /\ heap' = IF alloc = "ok" THEN AllocBlock(AllocBlock(NoBlocks, StackBlock), r)
                    ELSE IF alloc = "strdup_root" THEN AllocBlock(NoBlocks, StackBlock)
                    ELSE NoBlocks
        /\ midRun' = FALSE
        /\ UNCHANGED <<fs, db, txn, cur, entries, scenario, fsOps, last, prevLive>>
        /\ UNCHANGED <<searchVars, auxVars>>

\* main parses --root and --exclude, opens the catalog and enters
\* _index_files_dynamic: malloc of the stack, strdup of the root, BEGIN; when
\* an allocation fails the function returns and main exits
StartIndex ==
    \E r \in scenario.roots, e \in ExtraChoices,
       alloc \in {"ok", "malloc", "strdup_root"} :
        /\ pc = "idle"
        /\ runs < MaxRuns
        /\ alloc # "ok" => MayFail(alloc, 0)
        /\ runs' = runs + 1
        /\ faults' = IF alloc = "ok" THEN 0 ELSE 1
        /\ root' = r /\ extras' = e /\ excl' = ExcludedDirs(e)
        /\ pre' = db /\ wrote' = FALSE /\ perEntry' = {} /\ pruned' = FALSE
        /\ visits' = NoCounts /\ pushes' = NoCounts /\ pops' = NoCounts
        /\ outcome' = "none"
        /\ repeat' = (last = <<r, e>>)
        /\ allocFail' = IF alloc = "ok" THEN "none" ELSE alloc
        /\ capacity' = IF alloc = "malloc" THEN 0 ELSE STACK_INIT
        /\ stack' = IF alloc = "ok" THEN <<r>> ELSE <<>>
        /\ inTxn' = (alloc = "ok")
        /\ pc' = IF alloc = "ok" THEN "loop" ELSE "exited"
        /\ exitCode' = IF alloc = "ok" THEN "none" ELSE MainExitCode
        /\ heap' = IF alloc = "ok" THEN AllocBlock(AllocBlock(NoBlocks, StackBlock), r)
                    ELSE IF alloc = "strdup_root"
                         THEN FreeBlock(AllocBlock(NoBlocks, StackBlock), StackBlock)
                    ELSE NoBlocks
        /\ midRun' = FALSE
        /\ UNCHANGED <<fs, db, txn, cur, entries, scenario, fsOps, last, prevLive>>
        /\ UNCHANGED <<searchVars, auxVars>>

\* a Pop that gives the run up when a directory cannot be opened
PopAbortOnFail ==
    /\ pc = "loop"
    /\ stack # <<>>
    /\ LET current == stack[Len(stack)] IN
        /\ pops' = Bump(pops, current)
        /\ IF OpenDirOk(fs, current)
           THEN /\ \E order \in DirOrders(DirNames(fs, current)) : entries' = order
                /\ cur' = current
                /\ pc' = "readdir"
                /\ stack' = SubSeq(stack, 1, Len(stack) - 1)
                /\ UNCHANGED <<perEntry, db, txn, inTxn, outcome, heap>>
           ELSE /\ perEntry' = perEntry \cup {"opendir"}
                /\ db' = RollbackTxn(db, txn) /\ txn' = RollbackTxn(db, txn)
                /\ inTxn' = FALSE /\ outcome' = "rolledback"
                /\ stack' = <<>> /\ pc' = "exited"
                /\ heap' = FreeBlock(FreeAll(heap, stack), StackBlock)
                /\ UNCHANGED <<cur, entries>>
    /\ UNCHANGED <<fs, root, extras, excl, capacity, exitCode, scenario>>
    /\ UNCHANGED <<pre, wrote, faults, allocFail, pruned, visits, pushes, repeat, last>>
    /\ UNCHANGED <<searchVars, boundVars, liveVars, auxVars>>

\* a Pop that keeps a directory that cannot be opened on the frontier and
\* tries it again
PopRetry ==
    /\ pc = "loop"
    /\ stack # <<>>
    /\ LET current == stack[Len(stack)] IN
        IF OpenDirOk(fs, current)
        THEN /\ stack' = SubSeq(stack, 1, Len(stack) - 1)
             /\ pops' = Bump(pops, current)
             /\ \E order \in DirOrders(DirNames(fs, current)) : entries' = order
             /\ cur' = current
             /\ pc' = "readdir"
             /\ UNCHANGED <<perEntry, heap>>
        ELSE /\ perEntry' = perEntry \cup {"opendir"}
             /\ UNCHANGED <<stack, pops, heap, cur, entries, pc>>
    /\ UNCHANGED <<fs, db, txn, inTxn, root, extras, excl, capacity, exitCode, scenario>>
    /\ UNCHANGED <<pre, wrote, faults, allocFail, outcome, pruned, visits, pushes, repeat, last>>
    /\ UNCHANGED <<searchVars, boundVars, liveVars, auxVars>>

\* while (top > 0): pop a directory and open it; a directory that cannot be
\* opened is logged and the loop goes on
Pop ==
    /\ pc = "loop"
    /\ stack # <<>>
    /\ LET current == stack[Len(stack)] IN
        /\ stack' = SubSeq(stack, 1, Len(stack) - 1)
        /\ pops' = Bump(pops, current)
        /\ IF OpenDirOk(fs, current)
           THEN /\ \E order \in DirOrders(DirNames(fs, current)) : entries' = order
                /\ cur' = current
                /\ pc' = "readdir"
                /\ UNCHANGED <<perEntry, heap>>
           ELSE /\ perEntry' = perEntry \cup {"opendir"}
                /\ heap' = FreeBlock(heap, current)
                /\ UNCHANGED <<cur, entries, pc>>
    /\ UNCHANGED <<fs, db, txn, inTxn, root, extras, excl, capacity, exitCode, scenario>>
    /\ UNCHANGED <<pre, wrote, faults, allocFail, outcome, pruned, visits, pushes, repeat, last>>
    /\ UNCHANGED <<searchVars, boundVars, liveVars, auxVars>>

\* a push that raises top although strdup returned NULL
PushAlways(stk, path, copied) == Append(stk, path)

\* stack[top] = strdup(path); top++ unless the copy is NULL
Push(stk, path, copied) == IF copied THEN Append(stk, path) ELSE stk

\* one pass of while ((entry = readdir(dir))): build the child path, skip it
\* when excluded, stat it, reconcile it, push it when it is a directory
ReadEntry ==
    /\ pc = "readdir"
    /\ entries # <<>>
    /\ LET path == ChildPath(cur, Head(entries))
           visit == ~IsExcluded(excl, path) /\ StatOk(fs, path)
           isDir == visit /\ fs[path].kind = "dir"
           stmt == visit /\ GetDbMtime(txn, path) # fs[path].mtime
           grow == isDir /\ Len(stack) >= capacity
       IN
       \E stepOk \in BOOLEAN, push \in {"ok", "strdup", "realloc"} :
        /\ ~stepOk => (stmt /\ MayFail("stmt", 0))
        /\ push = "strdup" => (isDir /\ MayFail("strdup", IF stepOk THEN 0 ELSE 1))
        /\ push = "realloc" => (grow /\ MayFail("realloc", IF stepOk THEN 0 ELSE 1))
        /\ faults' = faults + (IF stepOk THEN 0 ELSE 1) + (IF push = "ok" THEN 0 ELSE 1)
        /\ perEntry' = perEntry
                        \cup (IF ~IsExcluded(excl, path) /\ ~StatOk(fs, path) THEN {"stat"} ELSE {})
                        \cup (IF ~stepOk THEN {"stmt"} ELSE {})
        /\ visits' = IF visit THEN Bump(visits, path) ELSE visits
        /\ LET r == IF visit THEN IndexEntry(txn, path, fs[path], stepOk)
                    ELSE [cat |-> txn, n |-> 0]
           IN
           /\ wrote' = (wrote \/ r.n > 0)
           /\ capacity' = IF grow THEN 2 * capacity ELSE capacity
           /\ IF push = "realloc"
              THEN \* closedir, free(current), ROLLBACK, free the stack, return; main exits
                   /\ db' = RollbackTxn(db, r.cat)
                   /\ txn' = RollbackTxn(db, r.cat)
                   /\ inTxn' = FALSE
                   /\ stack' = <<>> /\ entries' = <<>>
                   /\ allocFail' = "realloc" /\ outcome' = "rolledback"
                   /\ pc' = "exited" /\ exitCode' = MainExitCode
                   /\ heap' = FreeBlock(FreeAll(FreeBlock(heap, cur), stack), StackBlock)
                   /\ UNCHANGED pushes
              ELSE /\ txn' = r.cat
                   /\ entries' = Tail(entries)
                   /\ stack' = IF isDir THEN Push(stack, path, push = "ok") ELSE stack
                   /\ pushes' = IF isDir /\ push = "ok" THEN Bump(pushes, path) ELSE pushes
                   /\ heap' = IF isDir /\ push = "ok" THEN AllocBlock(heap, path) ELSE heap
                   /\ UNCHANGED <<db, inTxn, allocFail, outcome, pc, exitCode>>
    /\ UNCHANGED <<fs, root, extras, excl, cur, scenario>>
    /\ UNCHANGED <<pre, pruned, pops, repeat, last, boundVars>>
    /\ UNCHANGED <<searchVars, liveVars, auxVars>>

\* readdir returned NULL: closedir, free(current)
CloseDir ==
    /\ pc = "readdir"
    /\ entries = <<>>
    /\ pc' = "loop"
    /\ cur' = <<>>
    /\ heap' = FreeBlock(heap, cur)
    /\ UNCHANGED <<fs, db, txn, inTxn, root, extras, excl, stack, capacity, entries,
                   exitCode, scenario, last>>
    /\ UNCHANGED <<runVars, searchVars, boundVars, liveVars, auxVars>>

\* a pruning pass that does not wait for the frontier to empty
PruneEarly ==
    /\ pc = "loop"
    /\ \E delFail \in {{}} \cup {{p} : p \in {q \in PruneCandidates(txn, root) : ~StatOk(fs, q)}} :
        /\ delFail # {} => MayFail("delete", 0)
        /\ faults' = faults + Cardinality(delFail)
        /\ txn' = PruneStale(txn, root, fs, delFail)
        /\ wrote' = (wrote \/ DOMAIN PruneStale(txn, root, fs, delFail) # DOMAIN txn)
    /\ pruned' = TRUE
    /\ pc' = "commit"
    /\ UNCHANGED <<fs, db, inTxn, root, extras, excl, stack, capacity, cur, entries,
                   exitCode, scenario, last>>
    /\ UNCHANGED <<pre, perEntry, allocFail, outcome, visits, pushes, pops, repeat>>
    /\ UNCHANGED <<boundVars, searchVars, liveVars, heap, auxVars>>

\* the frontier is empty: _prune_stale_entries(db, root)
Prune ==
    /\ pc = "loop"
    /\ stack = <<>>
    /\ \E delFail \in {{}} \cup {{p} : p \in {q \in PruneCandidates(txn, root) : ~StatOk(fs, q)}} :
        /\ delFail # {} => MayFail("delete", 0)
        /\ faults' = faults + Cardinality(delFail)
        /\ txn' = PruneStale(txn, root, fs, delFail)
        /\ wrote' = (wrote \/ DOMAIN PruneStale(txn, root, fs, delFail) # DOMAIN txn)
    /\ pruned' = TRUE
    /\ pc' = "commit"
    /\ UNCHANGED <<fs, db, inTxn, root, extras, excl, stack, capacity, cur, entries,
                   exitCode, scenario, last>>
    /\ UNCHANGED <<pre, perEntry, allocFail, outcome, visits, pushes, pops, repeat>>
    /\ UNCHANGED <<boundVars, searchVars, liveVars, heap, auxVars>>

\* COMMIT, free(stack), return to main, which exits
Commit ==
    /\ pc = "commit"
    /\ db' = CommitTxn(db, txn)
    /\ txn' = CommitTxn(db, txn)
    /\ inTxn' = FALSE
    /\ outcome' = "committed"
    /\ pc' = "exited"
    /\ exitCode' = MainExitCode
    /\ heap' = FreeBlock(heap, StackBlock)
    /\ UNCHANGED <<fs, root, extras, excl, stack, capacity, cur, entries,
                   scenario, last>>
    /\ UNCHANGED <<pre, wrote, faults, perEntry, allocFail, pruned, visits, pushes,
                   pops, repeat>>
    /\ UNCHANGED <<searchVars, boundVars, liveVars, auxVars>>

\* the process is terminated from outside while the transaction is open:
\* the store discards the uncommitted writes, the process's memory is gone
Kill ==
    /\ pc \in {"loop", "readdir", "commit"}
    /\ db' = RollbackTxn(db, txn)
    /\ txn' = RollbackTxn(db, txn)
    /\ inTxn' = FALSE
    /\ outcome' = "killed"
    /\ exitCode' = "signal"
    /\ pc' = "dead"
    /\ root' = <<>> /\ extras' = <<>> /\ excl' = <<>> /\ stack' = <<>>
    /\ capacity' = 0 /\ cur' = <<>> /\ entries' = <<>>
    /\ faults' = 0 /\ perEntry' = {} /\ allocFail' = "none" /\ pruned' = FALSE
    /\ visits' = NoCounts /\ pushes' = NoCounts /\ pops' = NoCounts
    /\ repeat' = FALSE
    /\ midRun' = FALSE /\ heap' = NoBlocks
    /\ UNCHANGED <<fs, scenario, last, pre, wrote, prevLive>>
    /\ UNCHANGED <<searchVars, boundVars, auxVars>>

\* the process is gone; the next command starts from the committed catalog
Reap ==
    /\ pc \in {"exited", "dead"}
    /\ last' = IF outcome = "committed" /\ faults = 0 THEN <<root, extras>> ELSE NoRun
    /\ pc' = "idle"
    /\ txn' = db /\ inTxn' = FALSE
    /\ root' = <<>> /\ extras' = <<>> /\ excl' = <<>> /\ stack' = <<>>
    /\ capacity' = 0 /\ cur' = <<>> /\ entries' = <<>>
    /\ exitCode' = "none"
    /\ pre' = db /\ wrote' = FALSE /\ faults' = 0 /\ perEntry' = {}
    /\ allocFail' = "none" /\ outcome' = "none" /\ pruned' = FALSE
    /\ visits' = NoCounts /\ pushes' = NoCounts /\ pops' = NoCounts
    /\ repeat' = FALSE
    /\ prevLive' = midRun /\ midRun' = FALSE /\ heap' = NoBlocks
    /\ UNCHANGED <<fs, db, scenario>>
    /\ UNCHANGED <<searchVars, boundVars, auxVars>>

(***************************************************************************)
(* windex search <pattern>                                                 *)
(***************************************************************************)
\* a search that deletes the rows it prints
SearchAndDelete ==
    \E pat \in PatternChoices :
        /\ pc = "idle"
        /\ \E rows \in SearchRows(db, pat) :
            /\ results' = rows
            /\ db' = [p \in DOMAIN db \ {rows[i].path : i \in 1..Len(rows)} |-> db[p]]
            /\ txn' = db'
        /\ pattern' = pat
        /\ pc' = "searched"
        /\ UNCHANGED <<fs, inTxn, exitCode, scenario, last>>
        /\ UNCHANGED <<procVars, runVars, boundVars, liveVars, heap, auxVars>>

\* _search_files: one of the listings the query may return is printed
Search ==
    \E pat \in PatternChoices :
        /\ pc = "idle"
        /\ \E rows \in SearchRows(db, pat) : results' = rows
        /\ pattern' = pat
        /\ pc' = "searched"
        /\ UNCHANGED <<fs, db, txn, inTxn, exitCode, scenario, last>>
        /\ UNCHANGED <<procVars, runVars, boundVars, liveVars, heap, auxVars>>

\* main after _search_files returned
SearchExit ==
    /\ pc = "searched"
    /\ pattern' = <<>> /\ results' = <<>>
    /\ pc' = "idle"
    /\ UNCHANGED <<fs, db, txn, inTxn, exitCode, scenario, last>>
    /\ UNCHANGED <<procVars, runVars, boundVars, liveVars, heap, auxVars>>

(***************************************************************************)
(* The statements of a run, one at a time, on the table                    *)
(***************************************************************************)
RowPaths == {PathA, PathAB, PathW}
RowStats == {DirEntry(m) : m \in Mtimes} \cup {FileEntry(m, sz) : m \in Mtimes, sz \in Sizes}

\* _index_entry is handed some path with some stat result
RowIndex ==
    \E path \in RowPaths, st \in RowStats :
        /\ table' = IndexEntryRows(table, path, st)
        /\ UNCHANGED <<fs, db, txn, inTxn, pc, exitCode, scenario, last, heap, probe, verdict>>
        /\ UNCHANGED <<procVars, runVars, searchVars, boundVars, liveVars>>

\* the pruning pass deletes the row of some path
RowPrune ==
    \E path \in RowPaths :
        /\ table' = DeleteWhere(table, path)
        /\ UNCHANGED <<fs, db, txn, inTxn, pc, exitCode, scenario, last, heap, probe, verdict>>
        /\ UNCHANGED <<procVars, runVars, searchVars, boundVars, liveVars>>

(***************************************************************************)
(* The exclusion set: _init_excluded_dirs, _add_exclude_dir, _is_excluded  *)
(***************************************************************************)
\* _init_excluded_dirs: the defaults are copied into excluded_dirs
InitExcludedDirs ==
    /\ excl = <<>>
    /\ excl' = default_excluded_dirs
    /\ UNCHANGED <<fs, db, txn, inTxn, pc, root, extras, stack, capacity, cur, entries,
                   exitCode, scenario, last, heap, auxVars>>
    /\ UNCHANGED <<runVars, searchVars, boundVars, liveVars>>

\* _add_exclude_dir(optarg) while main parses its options, before any path is
\* tested
AddExcludeDir ==
    \E dir \in AddChoices :
        /\ Len(excl) >= Len(default_excluded_dirs)
        /\ Len(excl) < Len(default_excluded_dirs) + MaxExclude
        /\ probe = <<>>
        /\ excl' = Append(excl, dir)
        /\ UNCHANGED <<fs, db, txn, inTxn, pc, root, extras, stack, capacity, cur, entries,
                       exitCode, scenario, last, heap, auxVars>>
        /\ UNCHANGED <<runVars, searchVars, boundVars, liveVars>>

\* _is_excluded(path)
TestExcluded ==
    \E path \in ProbePaths :
        /\ Len(excl) >= Len(default_excluded_dirs)
        /\ probe' = path
        /\ verdict' = IsExcluded(excl, path)
        /\ UNCHANGED <<fs, db, txn, inTxn, pc, exitCode, scenario, last, heap, table>>
        /\ UNCHANGED <<procVars, runVars, searchVars, boundVars, liveVars>>

(***************************************************************************)
(* Specifications                                                          *)
(***************************************************************************)
Next ==
    \/ FsTouch \/ FsRemove \/ FsCreate \/ FsChmod
    \/ StartIndex \/ Pop \/ ReadEntry \/ CloseDir \/ Prune \/ Commit
    \/ Kill \/ Reap

Spec == Init /\ [][Next]_vars

\* one index run over the wide tree
WideNext ==
    \/ StartIndex \/ Pop \/ ReadEntry \/ CloseDir \/ Prune \/ Commit
    \/ Kill \/ Reap

SpecWide == WideInit /\ [][WideNext]_vars

\* index runs over a tree that changes while they are in progress
LiveNext ==
    \/ FsLive
    \/ StartIndex \/ Pop \/ ReadEntry \/ CloseDir \/ Prune \/ Commit
    \/ Reap

SpecLive == LiveInit /\ [][LiveNext]_vars

\* runs that are left alone: the tree changes only between runs, and a process
\* that can take a step of its loop takes it
TermNext ==
    \/ FsTouch \/ FsRemove \/ FsCreate \/ FsChmod
    \/ StartIndex \/ Pop \/ ReadEntry \/ CloseDir \/ Prune \/ Commit
    \/ Reap

SpecTerm ==
    /\ TermInit /\ [][TermNext]_vars
    /\ WF_vars(Pop) /\ WF_vars(ReadEntry) /\ WF_vars(CloseDir)
    /\ WF_vars(Prune) /\ WF_vars(Commit)

\* the exclusion set is built, then asked about paths
ExclNext == InitExcludedDirs \/ AddExcludeDir \/ TestExcluded

SpecExcl == ExclInit /\ [][ExclNext]_vars

\* runs over two roots, the trees changing between runs
RootsNext ==
    \/ FsTouch \/ FsRemove \/ FsCreate \/ FsChmod
    \/ StartIndex \/ Pop \/ ReadEntry \/ CloseDir \/ Prune \/ Commit
    \/ Reap

SpecRoots == RootsInit /\ [][RootsNext]_vars

\* one index run whose frontier grows, or whose push fails
SpecBounds == BoundsInit /\ [][WideNext]_vars

\* any sequence of the reconciler's and the pruning pass's statements
RowsNext == RowIndex \/ RowPrune

SpecRows == RowsInit /\ [][RowsNext]_vars

\* searches over the large catalogs
CapNext == Search \/ SearchExit

SpecCap == CapInit /\ [][CapNext]_vars

(***************************************************************************)
(* Vocabulary of the properties                                            *)
(***************************************************************************)
\* the run has returned and main has exited
RunEnded == pc = "exited"

\* the run went through to COMMIT
RunCommitted == RunEnded /\ outcome = "committed"

\* the run went through to COMMIT and met no injected failure
CleanRun == RunCommitted /\ faults = 0

\* s begins with the string r
HasPrefix(s, r) == Len(s) >= Len(r) /\ SubSeq(s, 1, Len(r)) = r

\* some member of the exclusion set occurs in the path
ContainsExcluded(ex, p) ==
    \E i \in 1..Len(ex) : \E a \in 1..(Len(p) + 1) :
        a + Len(ex[i]) - 1 <= Len(p) /\ \A k \in 1..Len(ex[i]) : p[a + k - 1] = ex[i][k]

\* the directories from r down to the parent of p
Ancestors(r, p) == {SubSeq(p, 1, j - 1) : j \in {k \in (Len(r) + 1)..Len(p) : p[k] = "/"}}

\* p is a descendant of the root r that is not excluded, whose ancestor
\* directories can all be opened and whose stat succeeds
Reachable(fsys, r, ex, p) ==
    /\ IsBelow(r, p)
    /\ p \in DOMAIN fsys /\ fsys[p].st
    /\ ~ContainsExcluded(ex, p)
    /\ \A d \in Ancestors(r, p) : d \in DOMAIN fsys /\ fsys[d].kind = "dir" /\ fsys[d].rd

\* the row holds what stat reports for the path
HoldsObserved(row, fsys, p) ==
    /\ row.name = NameOf(p)
    /\ row.type = (IF fsys[p].kind = "dir" THEN "dir" ELSE "file")
    /\ row.size = fsys[p].size
    /\ row.mtime = fsys[p].mtime

\* a row of the pre-run catalog whose file is as the catalog describes it
InSync(fsys, cat, q) == q \in DOMAIN fsys /\ fsys[q].st /\ cat[q].mtime = fsys[q].mtime

(***************************************************************************)
(* C1  Atomicity.  From BEGIN until COMMIT, and after a run that ended in  *)
(* ROLLBACK (the frontier reallocation failure) or was killed, the         *)
(* committed catalog is the catalog as it was when the run started.        *)
(***************************************************************************)
C1_Atomicity ==
    (inTxn \/ outcome \in {"rolledback", "killed"}) => db = pre

\* a run that had changed rows was rolled back on the realloc failure path
C1_Witness ==
    pc = "exited" /\ outcome = "rolledback" /\ allocFail = "realloc" /\ wrote

(***************************************************************************)
(* C2  Idempotence.  A run that repeats the previous committed run (same   *)
(* root, same exclusion options, no change of the tree in between, no      *)
(* injected failure in either run) changes no row: no statement of the     *)
(* second run inserts, updates or deletes, and the catalog it commits is   *)
(* the catalog the first run left.                                         *)
(***************************************************************************)
C2_Idempotence ==
    (CleanRun /\ repeat) => (db = pre /\ ~wrote)

\* a second run over a catalog of at least two rows
C2_Witness ==
    CleanRun /\ repeat /\ Cardinality(DOMAIN db) >= 2 /\ pc = "exited"

(***************************************************************************)
(* C3  Incrementality, as amended.  When the catalog holds a path P with a *)
(* stored mtime T other than 0, the walk reaches P and P's mtime in the    *)
(* tree differs from T, the run leaves P's row with the observed name,     *)
(* kind, size and mtime, and leaves unchanged every other row whose file   *)
(* is as the catalog describes it.                                         *)
(***************************************************************************)
C3_Case(P, anyStored) ==
    /\ P \in DOMAIN pre
    /\ Reachable(fs, root, excl, P)
    /\ pre[P].mtime # fs[P].mtime
    /\ anyStored \/ pre[P].mtime # 0

C3_Effect(P) ==
    /\ P \in DOMAIN db
    /\ HoldsObserved(db[P], fs, P)
    /\ \A q \in (DOMAIN pre) \ {P} :
          InSync(fs, pre, q) => (q \in DOMAIN db /\ db[q] = pre[q])

C4_Pruning ==
    CleanRun =>
        /\ \A Q \in DOMAIN pre : (HasPrefix(Q, root) /\ Q \notin DOMAIN fs) => Q \notin DOMAIN db
        /\ \A q \in DOMAIN pre : (q \in DOMAIN fs /\ fs[q].st) => q \in DOMAIN db

\* the row of a deleted file was removed and another row under the root kept
C4_Witness ==
    /\ CleanRun /\ pc = "exited"
    /\ \E Q \in DOMAIN pre :
          /\ HasPrefix(Q, root) /\ Q \notin DOMAIN fs /\ Q \notin DOMAIN db
          /\ \E q \in (DOMAIN pre) \ {Q} : HasPrefix(q, root) /\ q \in DOMAIN db

(***************************************************************************)
(* C5  Exclusion, as amended.  A run writes no row of a path that contains *)
(* a member of its exclusion set: every such row in the catalog after the  *)
(* run was in the catalog before the run, with the same contents.          *)
(***************************************************************************)
C5_ExclusionNoWrite ==
    (inTxn \/ RunCommitted) =>
        \A p \in DOMAIN txn : ContainsExcluded(excl, p) => (p \in DOMAIN pre /\ txn[p] = pre[p])

\* C5 as stated: after a run no row's path contains a member of the run's
\* exclusion set, whatever the catalog held before
C5_ExclusionAnyPrior ==
    RunCommitted => \A p \in DOMAIN db : ~ContainsExcluded(excl, p)

\* the walk opened a directory, skipped an excluded entry of it that stat
\* resolves, and indexed something else
C5_Witness ==
    /\ RunCommitted /\ pc = "exited" /\ wrote
    /\ \E p \in DOMAIN fs :
          /\ ContainsExcluded(excl, p) /\ fs[p].st /\ p \notin DOMAIN db
          /\ IsBelow(root, p)
          /\ \A d \in Ancestors(root, p) : OpenDirOk(fs, d) /\ Count(pops, d) = 1

(***************************************************************************)
(* C6  Search correctness.  A search returns (up to the limit) exactly the *)
(* rows whose lowercased name or lowercased path contains the lowercased   *)
(* pattern as a literal substring, by descending mtime.                    *)
(***************************************************************************)
LiteralMatches(cat, pat) ==
    {p \in DOMAIN cat : \/ StrStr(ToLower(cat[p].name), ToLower(pat))
                        \/ StrStr(ToLower(p), ToLower(pat))}

DescendingMtime(rows) ==
    \A i, j \in 1..Len(rows) : i < j => rows[i].mtime >= rows[j].mtime

ReturnedPaths(rows) == {rows[i].path : i \in 1..Len(rows)}

C6_SearchLiteral ==
    pc = "searched" =>
        /\ ReturnedPaths(results) \subseteq LiteralMatches(db, pattern)
        /\ Len(results) = Min(Cardinality(LiteralMatches(db, pattern)), SEARCH_LIMIT)
        /\ Cardinality(ReturnedPaths(results)) = Len(results)
        /\ \A i \in 1..Len(results) : results[i] = Selected(db, results[i].path)
        /\ DescendingMtime(results)

(***************************************************************************)
(* C7  Result cap.  A search returns at most SEARCH_LIMIT rows; when more  *)
(* rows match the query, it returns SEARCH_LIMIT of them, all different,   *)
(* and none of them is older than a matching row it left out.              *)
(***************************************************************************)
C7_ResultCap ==
    pc = "searched" =>
        LET M == SearchMatches(db, ToLower(pattern)) IN
        /\ Len(results) <= SEARCH_LIMIT
        /\ Cardinality(M) > SEARCH_LIMIT =>
              /\ Len(results) = SEARCH_LIMIT
              /\ Cardinality(ReturnedPaths(results)) = SEARCH_LIMIT
              /\ ReturnedPaths(results) \subseteq M
              /\ \A i \in 1..Len(results) : results[i].mtime = db[results[i].path].mtime
              /\ \A m \in M \ ReturnedPaths(results) :
                    \A i \in 1..Len(results) : results[i].mtime >= db[m].mtime

\* more rows matched than the limit and SEARCH_LIMIT rows came back
C7_Witness ==
    /\ pc = "searched"
    /\ Cardinality(SearchMatches(db, ToLower(pattern))) > SEARCH_LIMIT
    /\ Len(results) = SEARCH_LIMIT

(***************************************************************************)
(* C8  Exhaustive single visit.  In a run that reaches COMMIT, every       *)
(* descendant of the root that is not excluded, whose ancestor directories *)
(* can all be opened and whose stat succeeds is handed to _index_entry     *)
(* exactly once, and when it is a directory it is pushed exactly once and  *)
(* popped exactly once.                                                    *)
(***************************************************************************)
C8_VisitedOnce(p) ==
    /\ Count(visits, p) = 1
    /\ fs[p].kind = "dir" => (Count(pushes, p) = 1 /\ Count(pops, p) = 1)

C8_ExhaustiveSingleVisit ==
    RunCommitted => \A p \in DOMAIN fs : Reachable(fs, root, excl, p) => C8_VisitedOnce(p)

(***************************************************************************)
(* C9  Per-entry failures do not abort the run.  Once a directory could    *)
(* not be opened, a stat failed or an insert/update statement failed, the  *)
(* run stays inside its transaction, and unless the frontier reallocation  *)
(* fails it returns only after every pushed directory and the root were    *)
(* popped, the pruning pass ran and the transaction was committed.         *)
(***************************************************************************)
C9_PerEntryFailuresTolerated ==
    perEntry # {} =>
        /\ outcome = "none" => (inTxn /\ pc \in {"loop", "readdir", "commit"})
        /\ (RunEnded /\ allocFail # "realloc") =>
              /\ outcome = "committed"
              /\ pruned
              /\ Count(pops, root) = 1
              /\ \A p \in DOMAIN pushes : Count(pops, p) = pushes[p]

\* a run in which a statement failed and a directory could not be opened
\* was committed
C9_Witness ==
    /\ pc = "exited" /\ outcome = "committed" /\ pruned
    /\ {"opendir", "stmt"} \subseteq perEntry

(***************************************************************************)
(* C10  Frontier-stack allocation failure is fatal.  When the malloc of    *)
(* the stack, the strdup of the root or the realloc on growth fails, the   *)
(* process ends with a non-zero exit status.                               *)
(***************************************************************************)
C10_AllocFailureExitsNonZero ==
    (pc = "exited" /\ allocFail # "none") => exitCode # "0"

(***************************************************************************)
(* C11  Eventual consistency across runs.  After the tree changed during a *)
(* run and then stopped changing, the next run on the same root with the   *)
(* same exclusion options, once committed, leaves a row with the tree's    *)
(* mtime for every reachable descendant, and no row under the root for a   *)
(* path that is gone.                                                      *)
(***************************************************************************)
C11_Settled ==
    /\ \A p \in DOMAIN fs :
          Reachable(fs, root, excl, p) => (p \in DOMAIN db /\ db[p].mtime = fs[p].mtime)
    /\ \A q \in DOMAIN db : HasPrefix(q, root) => q \in DOMAIN fs

C11_EventualConsistency ==
    (CleanRun /\ repeat /\ prevLive /\ ~midRun) => C11_Settled

(***************************************************************************)
(* C12  Frontier memory release.  No block of the frontier (the stack      *)
(* array, the root string, a pushed path string) is ever freed twice, and  *)
(* when _index_files_dynamic has returned, on whichever path, every block  *)
(* it allocated has been freed once, the pushed strings included.          *)
(***************************************************************************)
C12_FrontierReleased ==
    /\ \A b \in DOMAIN heap : heap[b] <= 1
    /\ RunEnded =>
          /\ \A b \in DOMAIN heap : heap[b] = 1
          /\ DOMAIN pushes \subseteq DOMAIN heap
          /\ allocFail \notin {"malloc", "strdup_root"} => {StackBlock, root} \subseteq DOMAIN heap

\* the run returned on the realloc failure path with a full frontier
C12_Witness ==
    /\ pc = "exited" /\ allocFail = "realloc"
    /\ Cardinality(DOMAIN heap) > STACK_INIT
    /\ \A b \in DOMAIN heap : heap[b] = 1

(***************************************************************************)
(* C13  Insert on absent.  When the walk hands a path without a row to     *)
(* _index_entry and no statement fails, the path has a row afterwards,     *)
(* holding the observed name, kind, size and mtime, whatever the mtime.    *)
(***************************************************************************)
\* the step hands the next entry of the open directory, which has no row, to
\* _index_entry, and the statement does not fail
C13_HandsAbsent ==
    /\ pc = "readdir" /\ entries # <<>> /\ pc' = "readdir" /\ faults' = faults
    /\ ~IsExcluded(excl, ChildPath(cur, Head(entries)))
    /\ StatOk(fs, ChildPath(cur, Head(entries)))
    /\ ChildPath(cur, Head(entries)) \notin DOMAIN txn

C13_InsertOnAbsent ==
    [][C13_HandsAbsent =>
          /\ ChildPath(cur, Head(entries)) \in DOMAIN txn'
          /\ txn'[ChildPath(cur, Head(entries))]
                = [name  |-> NameOf(ChildPath(cur, Head(entries))),
                   type  |-> fs[ChildPath(cur, Head(entries))].kind,
                   size  |-> fs[ChildPath(cur, Head(entries))].size,
                   mtime |-> fs[ChildPath(cur, Head(entries))].mtime]]_vars

(***************************************************************************)
(* C14  Path uniqueness.  Whatever statements index runs issue, in         *)
(* whatever order, table files never holds two rows with one full_path,    *)
(* and a statement that keeps the number of rows (an UPDATE) leaves every  *)
(* row's full_path as it was.                                              *)
(***************************************************************************)
C14_PathsOf(t) == [i \in 1..Len(t) |-> t[i].full_path]

C14_PathUniqueness ==
    /\ [](\A i, j \in 1..Len(table) : i # j => table[i].full_path # table[j].full_path)
    /\ [][Len(table') = Len(table) => C14_PathsOf(table') = C14_PathsOf(table)]_vars

\* a table of three rows, one of which an UPDATE has set to mtime 0 (an
\* INSERT never stores that mtime)
C14_Witness ==
    /\ Len(table) = 3
    /\ \E i \in 1..Len(table) : table[i].mtime = 0

(***************************************************************************)
(* C15  Walk termination.  A run whose frontier holds only the root, over  *)
(* a tree that does not change while it runs, eventually empties the       *)
(* frontier, then prunes, then commits.                                    *)
(***************************************************************************)
C15_Started == pc = "loop" /\ stack = <<root>> /\ pops = NoCounts

C15_Finished == pc = "exited" /\ stack = <<>> /\ pruned /\ outcome = "committed"

C15_WalkTermination == C15_Started ~> C15_Finished

\* a finished run that expanded the root and a directory below it and met a
\* directory it could not open
C15_Witness ==
    /\ C15_Finished
    /\ Cardinality(DOMAIN pops) >= 2
    /\ "opendir" \in perEntry

(***************************************************************************)
(* C16  Exclusion membership.  Once the set is initialised and any number  *)
(* of exclusions added (duplicates are kept), _is_excluded(path) answers   *)
(* true exactly when some member of the set occurs somewhere in the path,  *)
(* inside a file name included, the set starts with the five defaults and  *)
(* keeps every added string, and an addition never turns an excluded path  *)
(* into a non-excluded one.                                                *)
(***************************************************************************)
C16_Answer ==
    probe # <<>> => (verdict <=> ContainsExcluded(excl, probe))

C16_SetKept ==
    excl # <<>> => SubSeq(excl, 1, Len(default_excluded_dirs)) = default_excluded_dirs

C16_Monotone ==
    /\ Len(excl') >= Len(excl)
    /\ excl # <<>> => SubSeq(excl', 1, Len(excl)) = excl
    /\ \A p \in ProbePaths : ContainsExcluded(excl, p) => ContainsExcluded(excl', p)

C16_ExclusionMembership ==
    /\ [](C16_Answer /\ C16_SetKept)
    /\ [][C16_Monotone]_vars

\* a path excluded only because an added string occurs inside its file name,
\* with the set holding a duplicate
C16_Witness ==
    /\ probe = PathPart /\ verdict
    /\ \E i, j \in 1..Len(excl) : i < j /\ excl[i] = excl[j]

(***************************************************************************)
(* C17  Ordering of a run.  The connection's view of the catalog changes   *)
(* only while the transaction is open, so the transaction is begun before  *)
(* the first write; pruning starts only when the frontier is empty and no  *)
(* directory is open; the commit comes after pruning; the committed        *)
(* catalog changes only at the commit, to what the transaction wrote; and  *)
(* a run that ends by rollback has not pruned.                             *)
(***************************************************************************)
C17_Step ==
    /\ (txn' # txn \/ (~wrote /\ wrote')) => inTxn
    /\ (~pruned /\ pruned') =>
            (inTxn /\ pc = "loop" /\ stack = <<>> /\ cur = <<>> /\ entries = <<>>)
    /\ (outcome # "committed" /\ outcome' = "committed") => (inTxn /\ pruned /\ pc = "commit")
    /\ db' # db => (inTxn /\ pc = "commit" /\ db' = txn)
    /\ outcome' = "rolledback" => ~pruned'

C17_RunOrdering == [][C17_Step]_vars

\* a committed run that walked two directories, wrote, pruned and changed the
\* committed catalog
C17_Witness ==
    /\ RunCommitted /\ wrote /\ pruned
    /\ Cardinality(DOMAIN pops) >= 2
    /\ db # pre
    /\ DOMAIN pre \ DOMAIN db # {}

(***************************************************************************)
(* C18  Pruning decision.  In the pruning pass a row selected for the root *)
(* is kept when stat on its path succeeds, and deleted when stat fails for *)
(* whatever reason (the path is gone, or it is there and stat is refused)  *)
(* unless its own DELETE fails; a failed DELETE leaves that one row and    *)
(* the pass goes on to delete every other row whose stat fails.  Rows that *)
(* are kept, and rows not selected, are unchanged.                         *)
(***************************************************************************)
C18_PruneStep == pc = "loop" /\ pc' = "commit"

\* the rows whose stat failed and that are still there: their DELETE failed
C18_Survivors ==
    {q \in PruneCandidates(txn, root) : ~StatOk(fs, q) /\ q \in DOMAIN txn'}

C18_PruningDecision ==
    [][C18_PruneStep =>
          /\ \A q \in PruneCandidates(txn, root) : StatOk(fs, q) => q \in DOMAIN txn'
          /\ Cardinality(C18_Survivors) = faults' - faults
          /\ DOMAIN txn' \subseteq DOMAIN txn
          /\ \A q \in DOMAIN txn' : txn'[q] = txn[q]
          /\ \A q \in DOMAIN txn \ PruneCandidates(txn, root) : q \in DOMAIN txn']_vars

\* the statement without the failed DELETE: a selected row is gone exactly
\* when stat on its path fails
C18_DeletedIffStatFails ==
    [][C18_PruneStep =>
          \A q \in PruneCandidates(txn, root) : (q \notin DOMAIN txn') <=> ~StatOk(fs, q)]_vars

\* after a pruning pass: a row whose path exists but cannot be stat'ed is
\* deleted, although the DELETE of another stale row failed
C18_Witness ==
    /\ pc = "commit" /\ pruned /\ faults = 1
    /\ \E q \in DOMAIN pre \ DOMAIN txn : q \in DOMAIN fs /\ ~fs[q].st
    /\ \E q \in DOMAIN txn : HasPrefix(q, root) /\ ~StatOk(fs, q)

(***************************************************************************)
(* C19  Search is read-only.  Executing a search, and leaving it, changes  *)
(* neither the committed catalog nor the connection's view of it: the same *)
(* paths with the same fields, and no transaction is opened.               *)
(***************************************************************************)
C19_SearchReadOnly ==
    [][(pc' = "searched" \/ pc = "searched") =>
          /\ DOMAIN db' = DOMAIN db
          /\ \A p \in DOMAIN db : db'[p] = db[p]
          /\ txn' = txn
          /\ ~inTxn /\ ~inTxn']_vars

\* a search that printed SEARCH_LIMIT rows of a catalog holding more
C19_Witness ==
    /\ pc = "searched"
    /\ Len(results) = SEARCH_LIMIT
    /\ Cardinality(DOMAIN db) > SEARCH_LIMIT
    /\ txn = db

(***************************************************************************)
(* C20  Root confinement.  A committed index run on a root leaves every    *)
(* row whose path does not begin with the root string, compared character  *)
(* by character with case, as it was before the run: none is inserted,     *)
(* changed or deleted, whether or not its file still exists.               *)
(***************************************************************************)
C20_RootConfinement ==
    RunCommitted =>
        \A p \in DOMAIN pre \cup DOMAIN db :
            ~HasPrefix(p, root) => (p \in DOMAIN pre /\ p \in DOMAIN db /\ db[p] = pre[p])

(***************************************************************************)
(* C21  No dangling rows after a quiescent run.  When an index run on a    *)
(* root has committed, the tree did not change while it ran and no         *)
(* statement or allocation failed, stat succeeds at that moment on the     *)
(* path of every catalog row that begins with the root.                    *)
(***************************************************************************)
C21_NoDanglingRows ==
    (CleanRun /\ ~midRun) =>
        \A q \in DOMAIN db : HasPrefix(q, root) => StatOk(fs, q)

\* a quiescent run that found a row under its root whose path is there but
\* cannot be stat'ed, deleted it, and kept another row under the root
C21_Witness ==
    /\ CleanRun /\ ~midRun
    /\ \E q \in DOMAIN pre \ DOMAIN db : HasPrefix(q, root) /\ q \in DOMAIN fs /\ ~fs[q].st
    /\ \E q \in DOMAIN db \cap DOMAIN pre : HasPrefix(q, root) /\ StatOk(fs, q)

(***************************************************************************)
(* C22  Frontier bounds.  While the walk runs, top (the length of the      *)
(* frontier) stays between 0 and capacity, and every slot below top holds  *)
(* a path that was written there and is still allocated.  A push that      *)
(* finds top >= capacity doubles capacity first, so the slot it writes is  *)
(* below capacity; capacity changes in no other way; a pop happens only    *)
(* with top > 0 and reads the slot written last; and a push whose strdup   *)
(* fails leaves top and the slots as they were.                            *)
(***************************************************************************)
C22_Walking == pc \in {"loop", "readdir", "commit"}

C22_Bounds ==
    C22_Walking =>
        /\ 0 <= Len(stack) /\ Len(stack) <= capacity
        /\ \A i \in 1..Len(stack) : stack[i] \in DOMAIN heap /\ heap[stack[i]] = 0

\* the child ReadEntry is looking at is a directory handed to _index_entry
C22_DirChild ==
    /\ pc = "readdir" /\ entries # <<>>
    /\ ~IsExcluded(excl, ChildPath(cur, Head(entries)))
    /\ StatOk(fs, ChildPath(cur, Head(entries)))
    /\ fs[ChildPath(cur, Head(entries))].kind = "dir"

C22_Step ==
    /\ (C22_Walking /\ C22_Walking') =>
            /\ capacity' \in {capacity, 2 * capacity}
            /\ Len(stack') \in {Len(stack) - 1, Len(stack), Len(stack) + 1}
    \* a push
    /\ (C22_Walking /\ Len(stack') = Len(stack) + 1) =>
            /\ C22_DirChild
            /\ Len(stack) >= capacity => capacity' = 2 * capacity
            /\ Len(stack) < capacity => capacity' = capacity
            /\ Len(stack) < capacity'
            /\ SubSeq(stack', 1, Len(stack)) = stack
            /\ stack'[Len(stack')] = ChildPath(cur, Head(entries))
            /\ pushes' # pushes
    \* a pop
    /\ (C22_Walking /\ Len(stack') = Len(stack) - 1 /\ pc' # "exited" /\ pc' # "dead") =>
            /\ pc = "loop" /\ Len(stack) > 0
            /\ stack' = SubSeq(stack, 1, Len(stack) - 1)
            /\ stack[Len(stack)] \in DOMAIN pushes \cup {root}
            /\ pops' = Bump(pops, stack[Len(stack)])
    \* a directory child that was not pushed although the run goes on: its
    \* strdup failed
    /\ (C22_DirChild /\ pc' = "readdir" /\ pushes' = pushes) => stack' = stack

C22_FrontierBounds == []C22_Bounds /\ [][C22_Step]_vars

\* the frontier has outgrown its first allocation: capacity was doubled and
\* top is above the first capacity
C22_Witness ==
    /\ pc = "readdir"
    /\ capacity = 2 * STACK_INIT
    /\ Len(stack) = STACK_INIT + 1
    /\ \A i \in 1..Len(stack) : stack[i] \in DOMAIN heap /\ heap[stack[i]] = 0

====
